---------------------------- MODULE Spec2Model ----------------------------
(***************************************************************************)
(* QueryLog (dbms/include/DB/Interpreters/QueryLog.h): producers push      *)
(* QueryLogElement records into a bounded queue; the saving thread         *)
(* (threadFunction) pops them into `data` and flushes `data` no more often *)
(* than every flush_interval_milliseconds; the destructor pushes a         *)
(* SHUTDOWN element and joins the thread.                                  *)
(*                                                                         *)
(* FunctionH3HexAreaM2::executeImpl (dbms/src/Functions/h3HexAreaM2.cpp)  *)
(* is modelled beside it, row by row, under its own specification H3Spec.  *)
(*                                                                         *)
(* Time is counted in milliseconds.  A Stopwatch is modelled by the        *)
(* milliseconds elapsed since its last restart; the value saturates one    *)
(* millisecond past flush_interval_milliseconds, which is exact for the    *)
(* code: the elapsed time is only compared with                            *)
(* flush_interval_milliseconds and subtracted from it.                     *)
(***************************************************************************)
EXTENDS Integers, Sequences, FiniteSets, TLC

\* ------------------------------------------------------------------ bounds
NumProducers == 2   \* producer threads calling add()
MaxRecords   == 2   \* add() calls made in one run
MaxInterval  == 1   \* flush_interval_milliseconds is drawn from 0..MaxInterval
MaxErrors    == 1   \* exceptions reaching the catch of threadFunction in one run
MaxRows      == 3   \* rows of the block handed to h3HexAreaM2
\* Capacity of `queue`: DBMS_QUERY_LOG_QUEUE_SIZE is 1024 in the source
\* (QueryLog.h:77); the model keeps it small so that a full queue is reached.
QueueCapacity == 1

\* ------------------------------------------------- QueryLogElement::Type
SHUTDOWN     == 0
QUERY_START  == 1
QUERY_FINISH == 2

\* size_t arithmetic is modular; the width is scaled down from 64 bits.
SizeModulus == 2 ^ 16

Producers == 1 .. NumProducers

VARIABLES
    flush_interval_milliseconds, \* constructor argument
    tables,              \* tables of the Context: name suffix -> "compatible"/"incompatible"
    table,               \* StoragePtr table; "null" until assigned
    queue,               \* ConcurrentBoundedQueue<QueryLogElement>
    data,                \* std::vector<QueryLogElement> data
    pc,                  \* position of saving_thread in threadFunction
    first,               \* local `first`
    element,             \* local `element`
    has_element,         \* local `has_element`
    final,               \* the flush in progress is the one of line 176
    time_after_last_write, \* ms elapsed on the Stopwatch (saturating)
    timeout,             \* argument of the tryPop in progress
    waited,              \* ms spent in the tryPop in progress
    ppc,                 \* per producer: "idle" or "push" (inside add)
    pending,             \* per producer: the element passed to add
    dtor,                \* ~QueryLog: "alive", "push", "join", "returned"
    \* history kept for the properties
    pushed,              \* elements in the order they entered the queue
    flushed,             \* one entry per flush() call, in call order
    flush_ok,            \* outcome of each finished flush() call
    since_flush_end,     \* ms since the last flush() returned (or thread start)
    errors,              \* exceptions caught at line 191 so far
    submitted,           \* add() calls so far
    \* FunctionH3HexAreaM2::executeImpl
    col_hindex,          \* the argument column (UInt8 resolutions)
    dst_data,            \* dst->getData()
    row,                 \* rows done by the loop of line 60
    result_column,       \* block.getByPosition(result).column
    h3_pc,               \* "idle", "loop", "done" or "thrown"
    h3_error             \* code of the exception thrown, "none" if none

vars == << flush_interval_milliseconds, tables, table, queue, data, pc, first,
           element, has_element, final, time_after_last_write, timeout, waited,
           ppc, pending, dtor, pushed, flushed, flush_ok, since_flush_end,
           errors, submitted,
           col_hindex, dst_data, row, result_column, h3_pc, h3_error >>

h3Vars == << col_hindex, dst_data, row, result_column, h3_pc, h3_error >>

queryLogVars ==
    << flush_interval_milliseconds, tables, table, queue, data, pc, first,
       element, has_element, final, time_after_last_write, timeout, waited,
       ppc, pending, dtor, pushed, flushed, flush_ok, since_flush_end,
       errors, submitted >>

\* An element that holds nothing yet (`QueryLogElement element;`); never read
\* while has_element is false.
NoElement == [id |-> -1, type |-> -1]

Min(a, b) == IF a < b THEN a ELSE b

\* Where the modelled Stopwatch stops counting.
ClockCap == flush_interval_milliseconds + 1


\* ------------------------------------------------ ConcurrentBoundedQueue
\* DB/Common/ConcurrentBoundedQueue.h: push blocks while the queue holds
\* QueueCapacity elements, pop blocks while it is empty, tryPop gives up after
\* its timeout; elements leave in the order they entered.
QueueCanPush(q) == Len(q) < QueueCapacity

QueuePush(q, x) == Append(q, x)

QueueCanPop(q) == q # << >>

QueueFront(q) == Head(q)

QueuePopped(q) == Tail(q)

\* ------------------------------------------------------- threadFunction
\* The test of line 174 written with ==: the element is left as it is and the
\* branch is taken for the sentinel.
ShutdownTest_Equality(e) == [element |-> e, taken |-> e.type = SHUTDOWN]

\* Line 174, `if (element.type = QueryLogElement::SHUTDOWN)`: the assignment
\* stores SHUTDOWN in element.type, and its value, converted to bool, is the
\* condition.
ShutdownTest(e) ==
    LET assigned == [e EXCEPT !.type = SHUTDOWN]
    IN  [element |-> assigned, taken |-> assigned.type # 0]

\* Line 160 with the test always true: the blocking pop whatever `data` holds.
UseBlockingPop_Always(d) == TRUE

\* Line 160 with the test never true: always the timed path.
UseBlockingPop_Never(d) == FALSE

\* Line 160, `if (data.empty())`: the blocking pop is chosen.
UseBlockingPop(d) == d = << >>

\* Line 180 inserting at the front instead of the back.
PushBack_AtFront(d, e) == << e >> \o d

\* Line 180: data.push_back(element).
PushBack(d, e) == Append(d, e)

\* Line 169: the timeout handed to tryPop, in size_t arithmetic.
TryPopTimeout(interval, ms) == (interval - ms) % SizeModulus

\* Line 168 without its guard: the subtraction of line 169 is always made.
BeforeDeadline_Unguarded(ms, interval) == TRUE

\* Line 168: the timed pop is made only before the deadline.
BeforeDeadline(ms, interval) == ms < interval

\* The deadline test of line 184 with > for >=.
DeadlineReached_Strict(ms, interval) == ms > interval

\* The deadline test of line 184 one millisecond early.
DeadlineReached_OffByOne(ms, interval) == ms + 1 >= interval

\* Line 184: the deadline test that starts a flush.
DeadlineReached(ms, interval) == ms >= interval

\* The catch of the loop without its data.clear().
CatchHandler_KeepData(d) == d

\* Line 194: data.clear() in the catch of the loop.
CatchHandler(d) == << >>

\* flush() with data.clear() inside the try block: a failed write keeps the
\* batch for the next flush.
FlushClear_KeepOnFailure(d, ok) == IF ok THEN << >> ELSE d

\* Line 240: data.clear() at the end of flush(), whatever the outcome.
FlushClear(d, ok) == << >>

\* Line 188 (and 153): Stopwatch::restart().
Restart == 0

\* ------------------------------------------------------------------ Init
\* The tables the Context may hold when the QueryLog is constructed: suffix 0
\* is the table name itself, suffix N the name with _N appended.
TableChoices ==
    { {},
      { <<0, "compatible">> },
      { <<0, "incompatible">>, <<1, "compatible">> } }

\* The state once the constructor has returned (lines 92-100): the thread is
\* started, nothing is queued; the constructor does not look at the tables.
Constructed(interval, existing) ==
    /\ flush_interval_milliseconds = interval
    /\ tables = existing
    /\ table = "null"
    /\ queue = << >>
    /\ data = << >>
    /\ pc = "loop"
    /\ first = TRUE
    /\ element = NoElement
    /\ has_element = FALSE
    /\ final = FALSE
    /\ time_after_last_write = 0
    /\ timeout = 0
    /\ waited = 0
    /\ ppc = [p \in Producers |-> "idle"]
    /\ pending = [p \in Producers |-> NoElement]
    /\ dtor = "alive"
    /\ pushed = << >>
    /\ flushed = << >>
    /\ flush_ok = << >>
    /\ since_flush_end = 0
    /\ errors = 0
    /\ submitted = 0

\* No call of h3HexAreaM2 is in progress.
H3Idle ==
    /\ col_hindex = << >>
    /\ dst_data = << >>
    /\ row = 0
    /\ result_column = [assigned |-> FALSE, data |-> << >>]
    /\ h3_pc = "idle"
    /\ h3_error = "none"

Init == H3Idle /\ \E interval \in 0 .. MaxInterval : Constructed(interval, {})

\* The same with each of the table sets, for one flush interval.
InitTables == H3Idle /\ \E existing \in TableChoices : Constructed(1, existing)

\* One flush interval, for the liveness properties.
InitFair == H3Idle /\ Constructed(1, {})

writerVars == << data, pc, first, element, has_element, final,
                 time_after_last_write, timeout, waited, flushed, flush_ok,
                 since_flush_end, errors, table >>

producerVars == << ppc, pending, submitted >>

\* ------------------------------------------------------------- producers
\* add(element), entry: the caller holds the element and calls queue.push.
\* add is called on a live object only, so not once the destructor has begun.
AddCall(p, t) ==
    /\ dtor = "alive"
    /\ ppc[p] = "idle"
    /\ submitted < MaxRecords
    /\ submitted' = submitted + 1
    /\ pending' = [pending EXCEPT ![p] = [id |-> submitted + 1, type |-> t]]
    /\ ppc' = [ppc EXCEPT ![p] = "push"]
    /\ UNCHANGED h3Vars
    /\ UNCHANGED << flush_interval_milliseconds, tables, queue, dtor, pushed >>
    /\ UNCHANGED writerVars

\* add() that gives up on a full queue instead of blocking (what the comment
\* of line 117 considers): the element is dropped.
AddPush_DropWhenFull(p) ==
    /\ ppc[p] = "push"
    /\ queue' = IF QueueCanPush(queue) THEN QueuePush(queue, pending[p]) ELSE queue
    /\ pushed' = IF QueueCanPush(queue) THEN Append(pushed, pending[p]) ELSE pushed
    /\ ppc' = [ppc EXCEPT ![p] = "idle"]
    /\ pending' = [pending EXCEPT ![p] = NoElement]
    /\ UNCHANGED h3Vars
    /\ UNCHANGED << flush_interval_milliseconds, tables, dtor, submitted >>
    /\ UNCHANGED writerVars

\* add(element), line 118: queue.push(element) goes through once there is room.
AddPush(p) ==
    /\ ppc[p] = "push"
    /\ QueueCanPush(queue)
    /\ queue' = QueuePush(queue, pending[p])
    /\ pushed' = Append(pushed, pending[p])
    /\ ppc' = [ppc EXCEPT ![p] = "idle"]
    /\ pending' = [pending EXCEPT ![p] = NoElement]
    /\ UNCHANGED h3Vars
    /\ UNCHANGED << flush_interval_milliseconds, tables, dtor, submitted >>
    /\ UNCHANGED writerVars

\* ------------------------------------------------------------ ~QueryLog
\* Lines 102-110: build the SHUTDOWN element, push it, join the thread.  The
\* destructor runs when no add() is in progress.
Sentinel == [id |-> 0, type |-> SHUTDOWN]

\* A destructor that also empties `data` itself once it has pushed the
\* sentinel, while the saving thread is still running.
Destructor_ClearsData ==
    /\ IF dtor = "alive"
         THEN /\ \A p \in Producers : ppc[p] = "idle"
              /\ dtor' = "push"
              /\ UNCHANGED << queue, pushed, data >>
         ELSE IF dtor = "push"
         THEN /\ QueueCanPush(queue)
              /\ queue' = QueuePush(queue, Sentinel)
              /\ pushed' = Append(pushed, Sentinel)
              /\ dtor' = "join"
              /\ data' = << >>
         ELSE /\ dtor = "join"
              /\ pc = "Stopped"
              /\ dtor' = "returned"
              /\ UNCHANGED << queue, pushed, data >>
    /\ UNCHANGED h3Vars
    /\ UNCHANGED << flush_interval_milliseconds, tables >>
    /\ UNCHANGED producerVars
    /\ UNCHANGED << pc, first, element, has_element, final,
                    time_after_last_write, timeout, waited, flushed, flush_ok,
                    since_flush_end, errors, table >>

Destructor ==
    /\ IF dtor = "alive"
         THEN /\ \A p \in Producers : ppc[p] = "idle"
              /\ dtor' = "push"
              /\ UNCHANGED << queue, pushed >>
         ELSE IF dtor = "push"
         THEN /\ QueueCanPush(queue)
              /\ queue' = QueuePush(queue, Sentinel)
              /\ pushed' = Append(pushed, Sentinel)
              /\ dtor' = "join"
         ELSE /\ dtor = "join"
              /\ pc = "Stopped"          \* saving_thread.join() returns
              /\ dtor' = "returned"
              /\ UNCHANGED << queue, pushed >>
    /\ UNCHANGED h3Vars
    /\ UNCHANGED << flush_interval_milliseconds, tables >>
    /\ UNCHANGED producerVars
    /\ UNCHANGED writerVars

\* ------------------------------------------------------- saving_thread
\* Lines 151-170, up to the queue call: restart the Stopwatch on the first
\* iteration, then choose the blocking pop, the timed pop or no pop at all.
WriterLoopTop ==
    /\ pc = "loop"
    /\ first' = FALSE
    /\ LET ms == IF first THEN Restart ELSE time_after_last_write
       IN  /\ time_after_last_write' = ms
           /\ IF UseBlockingPop(data)
                THEN /\ pc' = "pop"
                     /\ UNCHANGED << timeout, has_element >>
                ELSE IF BeforeDeadline(ms, flush_interval_milliseconds)
                THEN /\ pc' = "tryPop"
                     /\ timeout' = TryPopTimeout(flush_interval_milliseconds, ms)
                     /\ UNCHANGED has_element
                ELSE /\ pc' = "popped"
                     /\ has_element' = FALSE
                     /\ UNCHANGED timeout
    /\ waited' = 0
    /\ element' = NoElement
    /\ since_flush_end' = IF first THEN 0 ELSE since_flush_end  \* thread start
    /\ UNCHANGED h3Vars
    /\ UNCHANGED << flush_interval_milliseconds, tables, table, queue, data,
                    final, dtor, pushed, flushed, flush_ok, errors >>
    /\ UNCHANGED producerVars

\* Line 162: element = queue.pop().
WriterPop ==
    /\ pc = "pop"
    /\ QueueCanPop(queue)
    /\ element' = QueueFront(queue)
    /\ queue' = QueuePopped(queue)
    /\ has_element' = TRUE
    /\ pc' = "popped"
    /\ UNCHANGED h3Vars
    /\ UNCHANGED << flush_interval_milliseconds, tables, table, data, first,
                    final, time_after_last_write, timeout, waited, dtor,
                    pushed, flushed, flush_ok, since_flush_end, errors >>
    /\ UNCHANGED producerVars

\* Line 169: queue.tryPop(element, timeout) returns an element.
WriterTryPopElement ==
    /\ pc = "tryPop"
    /\ QueueCanPop(queue)
    /\ element' = QueueFront(queue)
    /\ queue' = QueuePopped(queue)
    /\ has_element' = TRUE
    /\ pc' = "popped"
    /\ waited' = 0
    /\ timeout' = 0
    /\ UNCHANGED h3Vars
    /\ UNCHANGED << flush_interval_milliseconds, tables, table, data, first,
                    final, time_after_last_write, dtor,
                    pushed, flushed, flush_ok, since_flush_end, errors >>
    /\ UNCHANGED producerVars

\* Line 169: queue.tryPop(element, timeout) times out.
WriterTryPopTimeout ==
    /\ pc = "tryPop"
    /\ ~QueueCanPop(queue)
    /\ waited >= timeout
    /\ has_element' = FALSE
    /\ pc' = "popped"
    /\ waited' = 0
    /\ timeout' = 0
    /\ UNCHANGED h3Vars
    /\ UNCHANGED << flush_interval_milliseconds, tables, table, queue, data,
                    first, element, final, time_after_last_write,
                    dtor, pushed, flushed, flush_ok, since_flush_end, errors >>
    /\ UNCHANGED producerVars

\* Lines 172-189, up to the call of flush(): the shutdown test, push_back,
\* and the deadline test.
WriterProcess ==
    /\ pc = "popped"
    /\ LET test == ShutdownTest(element)
           stop == has_element /\ test.taken
       IN  /\ data' = IF has_element /\ ~test.taken
                        THEN PushBack(data, test.element)
                        ELSE data
           /\ final' = stop
           /\ pc' = IF stop \/ DeadlineReached(time_after_last_write,
                                               flush_interval_milliseconds)
                      THEN "flush"
                      ELSE "loop"
    /\ element' = NoElement
    /\ has_element' = FALSE
    /\ UNCHANGED h3Vars
    /\ UNCHANGED << flush_interval_milliseconds, tables, table, queue, first,
                    time_after_last_write, timeout, waited, dtor, pushed,
                    flushed, flush_ok, since_flush_end, errors >>
    /\ UNCHANGED producerVars

\* flush(), lines 227-233: the call starts with `data` as its batch.  The
\* body builds an empty Block and writes nothing (line 233 is a TODO): no
\* table is looked up, created or renamed, and `table` is not assigned.
FlushBegin ==
    /\ pc = "flush"
    /\ flushed' = Append(flushed, [batch |-> data, final |-> final,
                                   gap |-> since_flush_end,
                                   errors |-> errors])
    /\ pc' = "flushing"
    /\ UNCHANGED h3Vars
    /\ UNCHANGED << flush_interval_milliseconds, tables, table, queue, data,
                    first, element, has_element, final, time_after_last_write,
                    timeout, waited, dtor, pushed, flush_ok, since_flush_end,
                    errors >>
    /\ UNCHANGED producerVars

\* flush(), lines 235-240, and what follows the call: the body has ended
\* (ok) or thrown into the catch of line 235 (~ok); data.clear(); then break
\* (line 177) after the shutdown flush, restart() (line 188) otherwise.
FlushEnd(ok) ==
    /\ pc = "flushing"
    /\ data' = FlushClear(data, ok)
    /\ flush_ok' = Append(flush_ok, ok)
    /\ since_flush_end' = 0
    /\ IF final
         THEN /\ pc' = "Stopped"
              /\ UNCHANGED time_after_last_write
         ELSE /\ pc' = "loop"
              /\ time_after_last_write' = Restart
    /\ final' = FALSE
    /\ UNCHANGED h3Vars
    /\ UNCHANGED << flush_interval_milliseconds, tables, table, queue, first,
                    element, has_element, timeout, waited, dtor, pushed,
                    flushed, errors >>
    /\ UNCHANGED producerVars

\* Lines 191-196: an exception thrown by the queue call (lines 162, 169) or
\* by push_back (line 180, reached when the shutdown test is not taken) is
\* caught in the loop; data.clear(), log, next iteration.
WriterThrow ==
    /\ errors < MaxErrors
    /\ \/ pc \in {"pop", "tryPop"}
       \/ pc = "popped" /\ has_element /\ ~ShutdownTest(element).taken
    /\ errors' = errors + 1
    /\ data' = CatchHandler(data)
    /\ pc' = "loop"
    /\ element' = NoElement
    /\ has_element' = FALSE
    /\ waited' = 0
    /\ timeout' = 0
    /\ UNCHANGED h3Vars
    /\ UNCHANGED << flush_interval_milliseconds, tables, table, queue, first,
                    final, time_after_last_write, dtor, pushed,
                    flushed, flush_ok, since_flush_end >>
    /\ UNCHANGED producerVars

\* ------------------------------------------------------------------ time
\* One millisecond passes.
Tick ==
    /\ time_after_last_write' =
           Min(time_after_last_write + 1, ClockCap)
    /\ since_flush_end' = Min(since_flush_end + 1, flush_interval_milliseconds)
    /\ waited' = IF pc = "tryPop" THEN Min(waited + 1, timeout) ELSE waited
    /\ UNCHANGED h3Vars
    /\ UNCHANGED << flush_interval_milliseconds, tables, table, queue, data,
                    pc, first, element, has_element, final, timeout, dtor,
                    pushed, flushed, flush_ok, errors >>
    /\ UNCHANGED producerVars

WriterNext ==
    \/ WriterLoopTop
    \/ WriterPop
    \/ WriterTryPopElement
    \/ WriterTryPopTimeout
    \/ WriterProcess
    \/ FlushBegin
    \/ \E ok \in BOOLEAN : FlushEnd(ok)

ProducerNext ==
    \/ \E p \in Producers : \E t \in {QUERY_START, QUERY_FINISH} : AddCall(p, t)
    \/ \E p \in Producers : AddPush(p)

Next ==
    \/ WriterNext
    \/ WriterThrow
    \/ ProducerNext
    \/ Destructor
    \/ Tick

Spec == Init /\ [][Next]_vars

TableSpec == InitTables /\ [][Next]_vars

\* The threads are scheduled fairly and time passes; an exception is never
\* bound to happen.
Fairness ==
    /\ WF_vars(WriterNext)
    /\ WF_vars(Destructor)
    /\ WF_vars(Tick)
    /\ \A p \in Producers : WF_vars(AddPush(p))

FairSpec == InitFair /\ [][Next]_vars /\ Fairness


\* ------------------------------------------ FunctionH3HexAreaM2::executeImpl
\* h3HexAreaM2.cpp.  MAX_H3_RES is the constant of the H3 library
\* (h3/constants.h) named at lines 63-65.
MAX_H3_RES == 15

\* hexAreaM2 of the H3 library (line 67): a table lookup by resolution, kept
\* uninterpreted.
HexAreaM2(res) == [hexAreaM2 |-> res]

\* Values a UInt8 resolution is drawn from.
ResolutionValues == {0, MAX_H3_RES, MAX_H3_RES + 1, 255}

\* The columns of up to MaxRows rows.
Columns ==
    UNION { [1 .. n -> ResolutionValues] : n \in 0 .. MaxRows }

input_rows_count == Len(col_hindex)

\* The range test of line 63 letting MAX_H3_RES + 1 through.
ResolutionOutOfBound_OffByOne(resolution) == resolution > MAX_H3_RES + 1

\* Line 63: `if (resolution > MAX_H3_RES)`.
ResolutionOutOfBound(resolution) == resolution > MAX_H3_RES

\* Lines 54-58, on entry: dst is created and resized to input_rows_count (its
\* values are not set yet, shown as -1); the result column of the block is
\* not assigned.
H3Init ==
    /\ Constructed(0, {})
    /\ col_hindex \in Columns
    /\ dst_data = [i \in 1 .. Len(col_hindex) |-> -1]
    /\ row = 0
    /\ result_column = [assigned |-> FALSE, data |-> << >>]
    /\ h3_pc = "loop"
    /\ h3_error = "none"

\* Lines 60-70, one row in range: dst_data[row] = hexAreaM2(resolution).
H3Row ==
    /\ h3_pc = "loop"
    /\ row < input_rows_count
    /\ LET resolution == col_hindex[row + 1]
       IN  /\ ~ResolutionOutOfBound(resolution)
           /\ dst_data' = [dst_data EXCEPT ![row + 1] = HexAreaM2(resolution)]
    /\ row' = row + 1
    /\ UNCHANGED << col_hindex, result_column, h3_pc, h3_error >>
    /\ UNCHANGED queryLogVars

\* Lines 62-65, one row out of range: throw ARGUMENT_OUT_OF_BOUND; dst goes
\* with the stack frame and the block is left as it was.
H3Throw ==
    /\ h3_pc = "loop"
    /\ row < input_rows_count
    /\ ResolutionOutOfBound(col_hindex[row + 1])
    /\ h3_pc' = "thrown"
    /\ h3_error' = "ARGUMENT_OUT_OF_BOUND"
    /\ UNCHANGED << col_hindex, dst_data, row, result_column >>
    /\ UNCHANGED queryLogVars

\* Line 72, after the last row: the result column gets dst.
H3Return ==
    /\ h3_pc = "loop"
    /\ row = input_rows_count
    /\ result_column' = [assigned |-> TRUE, data |-> dst_data]
    /\ h3_pc' = "done"
    /\ UNCHANGED << col_hindex, dst_data, row, h3_error >>
    /\ UNCHANGED queryLogVars

H3Next ==
    \/ H3Row
    \/ H3Throw
    \/ H3Return

H3Spec == H3Init /\ [][H3Next]_vars

\* ------------------------------------------------------------ properties
\* The batches of the flush() calls so far, joined in call order.
RECURSIVE ConcatBatches(_)
ConcatBatches(f) ==
    IF f = << >> THEN << >> ELSE Head(f).batch \o ConcatBatches(Tail(f))

IsRecord(e) == e.type # SHUTDOWN

\* The records, without the sentinel, in the order they entered the queue.
PushedRecords == SelectSeq(pushed, IsRecord)

IsPrefix(a, b) == Len(a) <= Len(b) /\ SubSeq(b, 1, Len(a)) = a

\* C1: once the destructor has pushed the sentinel and waits in join, the
\* saving thread eventually pops it, makes the final flush and leaves its
\* loop, and the join returns.  Stated here for the runs in which no
\* exception reaches the catch of the loop (the claim asks it of every run),
\* so that what refutes it is the loop itself and not a lost element.
C1_ShutdownTerminates ==
    (dtor = "join") ~> ((pc = "Stopped" /\ dtor = "returned") \/ errors > 0)

\* C2: while no flush has failed, the flushed batches joined in flush order
\* are the records that entered the queue, each once, in queue order and
\* as they were submitted (a prefix of them until all are flushed).  Stated
\* for the runs in which no exception reached the catch of the loop.
C2_FlushedOnceInOrder ==
    (errors = 0 /\ \A k \in DOMAIN flush_ok : flush_ok[k])
        => IsPrefix(ConcatBatches(flushed), PushedRecords)

\* No thread can take a step, now or after any wait: none is enabled and the
\* saving thread is not in a timed pop, which ends by itself.
AtRest == pc # "tryPop" /\ ~ENABLED (WriterNext \/ ProducerNext \/ Destructor)

C4_SentinelNeverAccumulated ==
    /\ \A i \in DOMAIN data : data[i].type # SHUTDOWN
    /\ \A k \in DOMAIN flushed :
          \A i \in DOMAIN flushed[k].batch : flushed[k].batch[i].type # SHUTDOWN


\* C5: a flush attempt, successful or failed, leaves the accumulator empty,
\* and no record of the batch of one flush() call is in the batch of a later
\* one.
C5_FailedFlushLosesBatch ==
    /\ [][Len(flush_ok') > Len(flush_ok) => data' = << >>]_vars
    /\ [](\A j, k \in DOMAIN flushed :
            j < k => \A a \in DOMAIN flushed[j].batch :
                        \A b \in DOMAIN flushed[k].batch :
                            flushed[j].batch[a].id # flushed[k].batch[b].id)

\* A failed flush of a non-empty batch, and a later flush of a non-empty batch.
C5_Witness ==
    \E j, k \in DOMAIN flushed :
        /\ j < k
        /\ j \in DOMAIN flush_ok
        /\ ~flush_ok[j]
        /\ flushed[j].batch # << >>
        /\ flushed[k].batch # << >>

\* C6: every flush() call but the final one of the shutdown test starts at
\* least flush_interval_milliseconds after the previous flush attempt ended
\* (after thread start for the first one).
C6_FlushRateLimit ==
    \A k \in DOMAIN flushed :
        flushed[k].final \/ flushed[k].gap >= flush_interval_milliseconds

\* A second flush has started, with a flush interval that is not zero.
C6_Witness ==
    /\ flush_interval_milliseconds > 0
    /\ Len(flushed) >= 2
    /\ ~flushed[2].final

\* C7: a step in which an exception is caught leaves the accumulator empty
\* and the saving thread at the top of its loop, and changes nothing of a
\* producer or of the destructor.
C7_FailureContained ==
    [][errors' # errors =>
          /\ data' = << >>
          /\ pc' = "loop"
          /\ ppc' = ppc
          /\ pending' = pending
          /\ dtor' = dtor]_vars

\* After a caught exception, a later element was popped, accumulated and
\* handed to a flush.
C7_Witness ==
    \E k \in DOMAIN flushed :
        /\ flushed[k].errors > 0
        /\ flushed[k].batch # << >>

\* Every add() has returned with its element in the queue order, or is still
\* inside queue.push.
NoneDropped ==
    Len(PushedRecords) + Cardinality({p \in Producers : ppc[p] = "push"})
        = submitted

\* C8: the queue never holds more than its capacity; no element is dropped;
\* a producer inside add() waits only while the queue is full; and every
\* add() returns.
C8_Backpressure ==
    /\ [](Len(queue) <= QueueCapacity)
    /\ [](NoneDropped)
    /\ [](\A p \in Producers :
            (ppc[p] = "push" /\ Len(queue) < QueueCapacity) => ENABLED AddPush(p))
    /\ \A p \in Producers : (ppc[p] = "push") ~> (ppc[p] = "idle")

\* A producer is blocked in add() on a full queue.
C8_Witness ==
    \E p \in Producers : ppc[p] = "push" /\ Len(queue) = QueueCapacity

\* The table the log is to be written to exists with a compatible structure.
TableReady == \E t \in tables : t[1] = 0 /\ t[2] = "compatible"

\* C9: once the first flush is over, `table` is set and the destination
\* table exists with a compatible structure (created, used as it was, or
\* created after the old one was renamed).
C9_TableResolvedOnFirstFlush ==
    Len(flush_ok) >= 1 => (table # "null" /\ TableReady)

\* The step of the shutdown test on a popped element.
TestStep == pc = "popped" /\ has_element /\ pc' # "popped" /\ errors' = errors

\* C10: the shutdown test is true for every element that reaches it, so any
\* popped element makes the saving thread flush and stop.
C10_AnyRecordStops == [][TestStep => (pc' = "flush" /\ final')]_vars

\* C10, as the code has it: the shutdown test is false for every element
\* that reaches it, the sentinel included; the element is appended to the
\* accumulator with its type overwritten by SHUTDOWN, and the saving thread
\* never stops.
C10_NoRecordStops ==
    /\ [][TestStep =>
            /\ ~final'
            /\ data' = Append(data, [element EXCEPT !.type = SHUTDOWN])]_vars
    /\ [](pc # "Stopped")

\* The sentinel has gone through the shutdown test.
C10_Witness == \E i \in DOMAIN data : data[i].id = Sentinel.id


\* C11: the saving thread stops strictly on the sentinel: the step of the
\* shutdown test leads to the final flush and the stop exactly when the
\* popped element was submitted with type SHUTDOWN.
C11_StopsStrictlyOnSentinel ==
    [][TestStep => (final' <=> element.type = SHUTDOWN)]_vars

\* C12: every element of the accumulator and of every flushed batch is,
\* field for field, an element as it was pushed onto the queue.
C12_RecordsUnchanged ==
    /\ \A i \in DOMAIN data : \E j \in DOMAIN pushed : pushed[j] = data[i]
    /\ \A k \in DOMAIN flushed :
          \A i \in DOMAIN flushed[k].batch :
              \E j \in DOMAIN pushed : pushed[j] = flushed[k].batch[i]

Ids(q) == [i \in DOMAIN q |-> q[i].id]

\* a is b with some of its entries left out.
RECURSIVE IsSubsequence(_, _)
IsSubsequence(a, b) ==
    IF a = << >> THEN TRUE
    ELSE IF b = << >> THEN FALSE
    ELSE IF Head(a) = Head(b) THEN IsSubsequence(Tail(a), Tail(b))
    ELSE IsSubsequence(a, Tail(b))

C14_FinalFlushOnSentinel ==
    [][(TestStep /\ element.id = Sentinel.id) =>
          (pc' = "flush" /\ final' /\ data' = data)]_vars

C16_OnlyQueueShared ==
    [][(ppc' # ppc \/ pending' # pending \/ dtor' # dtor) =>
          (data' = data /\ table' = table /\ flushed' = flushed)]_vars

\* The destructor has pushed the sentinel while the accumulator held an
\* element.
C16_Witness ==
    /\ dtor = "join"
    /\ data # << >>
    /\ queue # << >>
    /\ \A i \in DOMAIN data : data[i].id # Sentinel.id

\* C17: the blocking pop is made only on an empty accumulator, and a
\* non-empty accumulator is eventually emptied (flushed or discarded).
C17_NoRecordWaitsForever ==
    /\ [](pc = "pop" => data = << >>)
    /\ (data # << >>) ~> (data = << >>)

\* The accumulator holds an element, the queue is empty and nothing more
\* will be submitted.
C17_Witness ==
    /\ pc = "tryPop"
    /\ data # << >>
    /\ queue = << >>
    /\ dtor = "join"

\* C18: every flush() call but the final one of the shutdown test has a
\* non-empty batch.
C18_DeadlineFlushNonEmpty ==
    \A k \in DOMAIN flushed : flushed[k].final \/ flushed[k].batch # << >>

\* Two flushes have been made and an exception has emptied the accumulator.
C18_Witness == Len(flushed) >= 2 /\ errors > 0

\* C19: an element taken by the blocking pop when at least
\* flush_interval_milliseconds have passed since the last flush (or thread
\* start) goes to a flush in the same iteration, alone in its batch; with a
\* flush interval of 0 every batch holds one element.
C19_WindowAnchoredToLastFlush ==
    /\ [][(TestStep /\ data = << >>
              /\ since_flush_end >= flush_interval_milliseconds) =>
            /\ pc' = "flush"
            /\ Len(data') = 1
            /\ data'[1].id = element.id]_vars
    /\ [](flush_interval_milliseconds = 0 =>
            \A k \in DOMAIN flushed : Len(flushed[k].batch) = 1)

\* The blocking pop has returned an element a full interval (not zero) after
\* the last flush.
C19_Witness ==
    /\ pc = "popped"
    /\ has_element
    /\ data = << >>
    /\ flush_interval_milliseconds > 0
    /\ since_flush_end >= flush_interval_milliseconds
    /\ Len(flushed) >= 1


SomeRowOutOfBound == \E i \in DOMAIN col_hindex : col_hindex[i] > MAX_H3_RES

\* C20: if a row holds a resolution above MAX_H3_RES the call ends by
\* throwing ARGUMENT_OUT_OF_BOUND and the result column is never assigned;
\* if every row is in range it ends with a result column of
\* input_rows_count values, row i being hexAreaM2 of the resolution in row
\* i; and the call always ends one way or the other.
C20_RangeValidated ==
    /\ h3_pc \in {"loop", "done", "thrown"}
    /\ h3_pc = "loop" => ENABLED H3Next
    /\ SomeRowOutOfBound => (h3_pc # "done" /\ ~result_column.assigned)
    /\ h3_pc = "thrown" =>
          /\ SomeRowOutOfBound
          /\ h3_error = "ARGUMENT_OUT_OF_BOUND"
          /\ ~result_column.assigned
    /\ h3_pc = "done" =>
          /\ ~SomeRowOutOfBound
          /\ h3_error = "none"
          /\ result_column.assigned
          /\ Len(result_column.data) = input_rows_count
          /\ \A i \in 1 .. input_rows_count :
                result_column.data[i] = HexAreaM2(col_hindex[i])

\* The call has thrown on a row that follows rows in range.
C20_Witness == h3_pc = "thrown" /\ row >= 1

=============================================================================
